---- MODULE Spec2Model ----
(***************************************************************************)
(* A model of the LC-3 style simulator: the register file and memory of    *)
(* memory.rs, sign_extend of utils.rs, the opcode and flag enumerations of *)
(* enums.rs, and the loader and fetch/decode/execute loop of vm.rs.        *)
(*                                                                         *)
(* All words are u16: arithmetic is taken modulo 2^16 exactly where the    *)
(* source uses wrapping_add, and the bit operations are computed bit by    *)
(* bit.  Memory is the 65536-word array of MemoryManager, represented      *)
(* sparsely: a word that is absent from the function's domain is 0, as in  *)
(* MemoryManager::default.                                                 *)
(***************************************************************************)
EXTENDS Integers, Sequences, FiniteSets, TLC

VARIABLES
    reg,              \* RegisterManager.registers, indexed by Register
    mem,              \* MemoryManager.memory (sparse: absent words are 0)
    is_running,       \* Machine.is_running
    status,           \* where main/run stands: "constructed", "loaded",
                      \* "running", "returned", "load_error", "panicked"
    overflow_checks,  \* build profile: TRUE when overflow checks are compiled in
    fuel,             \* number of loop iterations still explored
    last,             \* history: the latest loop iteration (word, pre-state)
    output,           \* what the latest loop iteration printed
    se,               \* the call of sign_extend under examination
    file,             \* the byte stream behind the path given to load_image
    call              \* the latest call of the register or memory interface

vars == <<reg, mem, is_running, status, overflow_checks, fuel, last, output, se, file, call>>

(***************************************************************************)
(* Bounds of the exploration.                                              *)
(***************************************************************************)
MaxSteps == 4
MaxImageLen == 2
MaxStdin == 2

(***************************************************************************)
(* Program constants.                                                      *)
(***************************************************************************)
U16_BITS == 16
MAX_MEMORY == 65536
PC_START == 12288
KBSR == 65024
KBDR == 65026

U16 == 2 ^ U16_BITS

(***************************************************************************)
(* u16 operations as the source's operators compute them.                  *)
(***************************************************************************)
wrapping_add(a, b) == (a + b) % U16

RECURSIVE BitAndN(_, _, _)
BitAndN(a, b, n) ==
    IF n = 0 \/ a = 0 \/ b = 0 THEN 0
    ELSE (a % 2) * (b % 2) + 2 * BitAndN(a \div 2, b \div 2, n - 1)

BitAnd(a, b) == BitAndN(a, b, U16_BITS)

BitOr(a, b) == a + b - BitAnd(a, b)

BitNot(a) == (U16 - 1) - a

\* x >> n and x << n for n below the width of the type
Shr(a, n) == a \div (2 ^ n)

Shl(a, n) == (a * (2 ^ n)) % U16

(***************************************************************************)
(* utils.rs: sign_extend.  A shift by the full width or more overflows:    *)
(* with overflow checks the process panics, without them the shift amount  *)
(* is masked to the width of the type.  PANIC stands for the abort.        *)
(***************************************************************************)
PANIC == 0 - 1

ShrChecked(a, n, checks) ==
    IF n < U16_BITS THEN Shr(a, n)
    ELSE IF checks THEN PANIC ELSE Shr(a, n % U16_BITS)

ShlChecked(a, n, checks) ==
    IF n < U16_BITS THEN Shl(a, n)
    ELSE IF checks THEN PANIC ELSE Shl(a, n % U16_BITS)

sign_extend(x, bit_count, checks) ==
    IF bit_count = 0 THEN x
    ELSE LET top == ShrChecked(x, bit_count - 1, checks)
         IN IF top = PANIC THEN PANIC
            ELSE IF BitAnd(top, 1) # 0
                 THEN LET fill == ShlChecked(U16 - 1, bit_count, checks)
                      IN IF fill = PANIC THEN PANIC ELSE BitOr(x, fill)
                 ELSE x

(***************************************************************************)
(* enums.rs: Register, RawOpCode, CondFlag (and TrapCode, MemMappedReg).   *)
(***************************************************************************)
Registers == {"R0", "R1", "R2", "R3", "R4", "R5", "R6", "R7", "PC", "COND", "COUNT"}

GeneralRegisters == {"R0", "R1", "R2", "R3", "R4", "R5", "R6", "R7"}

RegisterOrder == <<"R0", "R1", "R2", "R3", "R4", "R5", "R6", "R7", "PC", "COND", "COUNT">>

\* Register::from_u16 on a 3-bit field
Register_from_u16(n) == RegisterOrder[n + 1]

\* the discriminants of RawOpCode, in declaration order from Br = 0
RawOpCodeOrder ==
    <<"Br", "Add", "Ld", "St", "Jsr", "And", "Ldr", "Str",
      "Not", "Ldi", "Sti", "Jmp", "Noop", "Lea", "Trap">>

\* RawOpCode::from_u16: None for a value that is no discriminant
RawOpCode_from_u16(n) ==
    IF (n + 1) \in DOMAIN RawOpCodeOrder THEN RawOpCodeOrder[n + 1] ELSE "None"

\* TrapCode::from_u16: the trap vectors of the dispatch table
TrapCode_from_u16(n) ==
    CASE n = 32 -> "GetC"
      [] n = 33 -> "Out"
      [] n = 34 -> "Puts"
      [] n = 35 -> "In"
      [] n = 36 -> "PutsP"
      [] n = 37 -> "Halt"
      [] OTHER -> "None"

CondFlag_Pos == Shl(1, 0)
CondFlag_Zero == Shl(1, 1)
CondFlag_Neg == Shl(1, 2)

CondFlag_from_reg_value_signless(val) ==
    IF val = 0 THEN CondFlag_Zero ELSE CondFlag_Pos

CondFlag_from_reg_value(val) ==
    IF val = 0 THEN CondFlag_Zero
    ELSE IF Shr(val, 15) # 0 THEN CondFlag_Neg
    ELSE CondFlag_Pos

(***************************************************************************)
(* The machine while one operation runs: the fields of Machine, the bytes  *)
(* standard input will deliver during the operation, what was printed,     *)
(* the value just read (val) and whether the process is still alive (ok).  *)
(***************************************************************************)
MachineOf(r, m, run, checks, inp) ==
    [reg |-> r, mem |-> m, is_running |-> run, checks |-> checks,
     stdin |-> inp, out |-> <<>>, val |-> 0, ok |-> TRUE, why |-> "no"]

\* a panic: `why` names the unwrap that failed
Abort(m, why) == [m EXCEPT !.ok = FALSE, !.why = why]

Emit(m, chars) == [m EXCEPT !.out = m.out \o chars]

\* io::stdin().read_exact(&mut [0; 1]).unwrap(): end of input aborts
stdin_read_byte(m) ==
    IF ~m.ok THEN m
    ELSE IF m.stdin = <<>> THEN Abort(m, "stdin")
    ELSE [m EXCEPT !.val = Head(m.stdin), !.stdin = Tail(m.stdin)]

(***************************************************************************)
(* memory.rs: RegisterManager.                                             *)
(***************************************************************************)
RegisterManager_default_pc_zero == [r \in Registers |-> 0]

RegisterManager_default ==
    [r \in Registers |-> IF r = "PC" THEN PC_START ELSE 0]

reg_get(m, r) == m.reg[r]

reg_set(m, r, val) == [m EXCEPT !.reg[r] = val]

reg_incr_no_wrap(m, r) == [m EXCEPT !.reg[r] = m.reg[r] + 1]

reg_incr(m, r) == [m EXCEPT !.reg[r] = wrapping_add(m.reg[r], 1)]

reg_incr_by(m, r, val) == [m EXCEPT !.reg[r] = wrapping_add(m.reg[r], val)]

reg_copy_reversed(m, sink, src) == [m EXCEPT !.reg[src] = m.reg[sink]]

reg_copy(m, sink, src) == [m EXCEPT !.reg[sink] = m.reg[src]]

(***************************************************************************)
(* memory.rs: MemoryManager.                                               *)
(***************************************************************************)
MemoryManager_default == [a \in {} |-> 0]

\* memory[addr as usize]
MemWord(memory, addr) == IF addr \in DOMAIN memory THEN memory[addr] ELSE 0

\* memory[addr as usize] = val
MemStore(memory, addr, val) ==
    IF val = 0
    THEN [a \in (DOMAIN memory) \ {addr} |-> memory[a]]
    ELSE [a \in (DOMAIN memory) \cup {addr} |-> IF a = addr THEN val ELSE memory[a]]

mem_write_low_byte(m, addr, val) == [m EXCEPT !.mem = MemStore(m.mem, addr, val % 256)]

mem_write(m, addr, val) == [m EXCEPT !.mem = MemStore(m.mem, addr, val)]

mem_read(m, addr) ==
    IF ~m.ok THEN m
    ELSE IF addr = KBSR
    THEN LET r == stdin_read_byte(m)
             w == IF r.val # 0
                  THEN mem_write(mem_write(r, KBSR, Shl(1, 15)), KBDR, r.val)
                  ELSE mem_write(r, KBSR, 0)
         IN IF ~r.ok THEN r ELSE [w EXCEPT !.val = MemWord(w.mem, addr)]
    ELSE [m EXCEPT !.val = MemWord(m.mem, addr)]

(***************************************************************************)
(* vm.rs: the arms of Machine::decode_and_execute, one operator each.      *)
(***************************************************************************)
\* the 3-bit register field of raw_instr that starts at bit `shift`
RegField(raw_instr, shift) == Register_from_u16(BitAnd(Shr(raw_instr, shift), 7))

update_flags_accumulating(m, register) ==
    reg_set(m, "COND",
            BitOr(reg_get(m, "COND"), CondFlag_from_reg_value(reg_get(m, register))))

update_flags(m, register) ==
    reg_set(m, "COND", CondFlag_from_reg_value(reg_get(m, register)))

ExecAdd_saturating(m, raw_instr) ==
    LET dest == RegField(raw_instr, 9)
        src1 == RegField(raw_instr, 6)
        imm_flag == BitAnd(Shr(raw_instr, 5), 1)
        imm5 == sign_extend(BitAnd(raw_instr, 31), 5, m.checks)
        src2 == RegField(raw_instr, 0)
        sum == reg_get(m, src1) + (IF imm_flag = 1 THEN imm5 ELSE reg_get(m, src2))
    IN update_flags(reg_set(m, dest, IF sum < U16 THEN sum ELSE U16 - 1), dest)

ExecAdd(m, raw_instr) ==
    LET dest == RegField(raw_instr, 9)
        src1 == RegField(raw_instr, 6)
        imm_flag == BitAnd(Shr(raw_instr, 5), 1)
        imm5 == sign_extend(BitAnd(raw_instr, 31), 5, m.checks)
        src2 == RegField(raw_instr, 0)
        m1 == IF imm_flag = 1
              THEN reg_set(m, dest, wrapping_add(reg_get(m, src1), imm5))
              ELSE reg_set(m, dest, wrapping_add(reg_get(m, src1), reg_get(m, src2)))
    IN update_flags(m1, dest)

ExecAnd_zero_extended(m, raw_instr) ==
    LET dest == RegField(raw_instr, 9)
        src1 == RegField(raw_instr, 6)
        imm_flag == BitAnd(Shr(raw_instr, 5), 1)
        src2 == RegField(raw_instr, 0)
        m1 == IF imm_flag = 1
              THEN reg_set(m, dest, BitAnd(reg_get(m, src1), BitAnd(raw_instr, 31)))
              ELSE reg_set(m, dest, BitAnd(reg_get(m, src1), reg_get(m, src2)))
    IN update_flags(m1, dest)

ExecAnd(m, raw_instr) ==
    LET dest == RegField(raw_instr, 9)
        src1 == RegField(raw_instr, 6)
        imm_flag == BitAnd(Shr(raw_instr, 5), 1)
        imm5 == sign_extend(BitAnd(raw_instr, 31), 5, m.checks)
        src2 == RegField(raw_instr, 0)
        m1 == IF imm_flag = 1
              THEN reg_set(m, dest, BitAnd(reg_get(m, src1), imm5))
              ELSE reg_set(m, dest, BitAnd(reg_get(m, src1), reg_get(m, src2)))
    IN update_flags(m1, dest)

ExecNot(m, raw_instr) ==
    LET dest == RegField(raw_instr, 9)
        src == RegField(raw_instr, 6)
    IN update_flags(reg_set(m, dest, BitNot(reg_get(m, src))), dest)

ExecBr_always(m, raw_instr) ==
    reg_incr_by(m, "PC", sign_extend(BitAnd(raw_instr, 511), 9, m.checks))

ExecBr(m, raw_instr) ==
    LET cond_flag == BitAnd(Shr(raw_instr, 9), 7)
        pc_offset == sign_extend(BitAnd(raw_instr, 511), 9, m.checks)
    IN IF BitAnd(cond_flag, reg_get(m, "COND")) # 0
       THEN reg_incr_by(m, "PC", pc_offset)
       ELSE m

ExecJmp(m, raw_instr) ==
    reg_copy(m, "PC", RegField(raw_instr, 6))

ExecJsr(m, raw_instr) ==
    LET miku_bit == BitAnd(Shr(raw_instr, 11), 1)
        m1 == reg_copy(m, "R7", "PC")
        pc_offset == sign_extend(BitAnd(raw_instr, 2047), 11, m.checks)
    IN IF miku_bit = 1
       THEN reg_incr_by(m1, "PC", pc_offset)
       ELSE reg_copy(m1, "PC", RegField(raw_instr, 6))

ExecLd(m, raw_instr) ==
    LET dest == RegField(raw_instr, 9)
        pc_offset == sign_extend(BitAnd(raw_instr, 511), 9, m.checks)
        addr == wrapping_add(reg_get(m, "PC"), pc_offset)
        m1 == mem_read(m, addr)
    IN update_flags(reg_set(m1, dest, m1.val), dest)

ExecLdr_ignores_offset(m, raw_instr) ==
    LET dest == RegField(raw_instr, 9)
        base == RegField(raw_instr, 6)
        m1 == mem_read(m, reg_get(m, base))
    IN update_flags(reg_set(m1, dest, m1.val), dest)

ExecLdr(m, raw_instr) ==
    LET dest == RegField(raw_instr, 9)
        base == RegField(raw_instr, 6)
        offset == sign_extend(BitAnd(raw_instr, 63), 6, m.checks)
        m1 == mem_read(m, wrapping_add(reg_get(m, base), offset))
    IN update_flags(reg_set(m1, dest, m1.val), dest)

ExecLdi_flags_from_address(m, raw_instr) ==
    LET dest == RegField(raw_instr, 9)
        pc_offset == sign_extend(BitAnd(raw_instr, 511), 9, m.checks)
        addr == wrapping_add(reg_get(m, "PC"), pc_offset)
        m1 == mem_read(m, addr)
        m2 == mem_read(m1, m1.val)
        m3 == update_flags(reg_set(m2, dest, m1.val), dest)
    IN reg_set(m3, dest, m2.val)

ExecLdi(m, raw_instr) ==
    LET dest == RegField(raw_instr, 9)
        pc_offset == sign_extend(BitAnd(raw_instr, 511), 9, m.checks)
        addr == wrapping_add(reg_get(m, "PC"), pc_offset)
        m1 == mem_read(m, addr)
        miku_addr == m1.val
        m2 == mem_read(m1, miku_addr)
    IN update_flags(reg_set(m2, dest, m2.val), dest)

ExecLea(m, raw_instr) ==
    LET dest == RegField(raw_instr, 9)
        pc_offset == sign_extend(BitAnd(raw_instr, 511), 9, m.checks)
        eff_addr == wrapping_add(reg_get(m, "PC"), pc_offset)
    IN update_flags(reg_set(m, dest, eff_addr), dest)

ExecSt(m, raw_instr) ==
    LET src == RegField(raw_instr, 9)
        pc_offset == sign_extend(BitAnd(raw_instr, 511), 9, m.checks)
        addr == wrapping_add(reg_get(m, "PC"), pc_offset)
    IN mem_write(m, addr, reg_get(m, src))

ExecSti_direct(m, raw_instr) ==
    LET src == RegField(raw_instr, 9)
        pc_offset == sign_extend(BitAnd(raw_instr, 511), 9, m.checks)
        miku_addr == wrapping_add(reg_get(m, "PC"), pc_offset)
    IN mem_write(m, miku_addr, reg_get(m, src))

ExecSti(m, raw_instr) ==
    LET src == RegField(raw_instr, 9)
        pc_offset == sign_extend(BitAnd(raw_instr, 511), 9, m.checks)
        miku_addr == wrapping_add(reg_get(m, "PC"), pc_offset)
        m1 == mem_read(m, miku_addr)
    IN mem_write(m1, m1.val, reg_get(m1, src))

ExecStr(m, raw_instr) ==
    LET src == RegField(raw_instr, 9)
        base == RegField(raw_instr, 6)
        offset == sign_extend(BitAnd(raw_instr, 63), 6, m.checks)
        addr == wrapping_add(reg_get(m, base), offset)
    IN mem_write(m, addr, reg_get(m, src))

(***************************************************************************)
(* The trap routines.  Printed characters are recorded by their code;      *)
(* the fixed texts are recorded by the markers below.                      *)
(***************************************************************************)
TextHalted == 0 - 2
TextPrompt == 0 - 3
TextDiagnostic == 0 - 4

\* `as u8`
AsU8(v) == v % 256

RECURSIVE PutsLoop(_, _)
PutsLoop(m, miku_addr) ==
    LET c == mem_read(m, miku_addr)
        b == mem_read(c, miku_addr)
    IN IF ~c.ok \/ c.val = 0 THEN c
       ELSE IF ~b.ok THEN b
       ELSE PutsLoop(Emit(b, <<AsU8(b.val)>>), wrapping_add(miku_addr, 1))

RECURSIVE PutsPLoop(_, _)
PutsPLoop(m, miku_addr) ==
    LET c == mem_read(m, miku_addr)
        b == mem_read(c, miku_addr)
        c1 == AsU8(BitAnd(b.val, 255))
        c2 == AsU8(Shr(b.val, 8))
    IN IF ~c.ok \/ c.val = 0 THEN c
       ELSE IF ~b.ok THEN b
       ELSE PutsPLoop(Emit(b, IF c2 # 0 THEN <<c1, c2>> ELSE <<c1>>),
                      wrapping_add(miku_addr, 1))

TrapGetC(m) ==
    LET r == stdin_read_byte(m)
    IN IF ~r.ok THEN r ELSE reg_set(r, "R0", r.val)

TrapOut(m) == Emit(m, <<AsU8(reg_get(m, "R0"))>>)

TrapPuts(m) == PutsLoop(m, reg_get(m, "R0"))

TrapIn(m) ==
    LET r == stdin_read_byte(Emit(m, <<TextPrompt>>))
    IN IF ~r.ok THEN r ELSE reg_set(r, "R0", r.val)

TrapPutsP_one_per_word(m) == PutsLoop(m, reg_get(m, "R0"))

TrapPutsP(m) == PutsPLoop(m, reg_get(m, "R0"))

TrapHalt(m) == [Emit(m, <<TextHalted>>) EXCEPT !.is_running = FALSE]

TrapUnknown_halts(m, raw_instr) ==
    [Emit(m, <<TextDiagnostic, raw_instr>>) EXCEPT !.is_running = FALSE]

TrapUnknown(m, raw_instr) == Emit(m, <<TextDiagnostic, raw_instr>>)

ExecTrap(m, raw_instr) ==
    LET trap_code == TrapCode_from_u16(BitAnd(raw_instr, 255))
    IN CASE trap_code = "GetC" -> TrapGetC(m)
         [] trap_code = "Out" -> TrapOut(m)
         [] trap_code = "Puts" -> TrapPuts(m)
         [] trap_code = "In" -> TrapIn(m)
         [] trap_code = "PutsP" -> TrapPutsP(m)
         [] trap_code = "Halt" -> TrapHalt(m)
         [] OTHER -> TrapUnknown(m, raw_instr)

(***************************************************************************)
(* vm.rs: fetch and decode_and_execute.                                    *)
(***************************************************************************)
fetch_without_increment(m) == mem_read(m, reg_get(m, "PC"))

fetch_increment_no_wrap(m) ==
    LET m1 == mem_read(m, reg_get(m, "PC"))
    IN IF ~m1.ok THEN m1 ELSE [m1 EXCEPT !.reg["PC"] = m1.reg["PC"] + 1]

fetch(m) ==
    LET m1 == mem_read(m, reg_get(m, "PC"))
    IN IF ~m1.ok THEN m1 ELSE reg_incr(m1, "PC")

decode_and_execute(m, raw_instr) ==
    LET raw_op == RawOpCode_from_u16(Shr(raw_instr, 12))
    IN IF ~m.ok THEN m
       ELSE IF raw_instr = 0 THEN m
       ELSE CASE raw_op = "None" -> Abort(m, "opcode")
              [] raw_op = "Add" -> ExecAdd(m, raw_instr)
              [] raw_op = "And" -> ExecAnd(m, raw_instr)
              [] raw_op = "Not" -> ExecNot(m, raw_instr)
              [] raw_op = "Br" -> ExecBr(m, raw_instr)
              [] raw_op = "Jmp" -> ExecJmp(m, raw_instr)
              [] raw_op = "Jsr" -> ExecJsr(m, raw_instr)
              [] raw_op = "Ld" -> ExecLd(m, raw_instr)
              [] raw_op = "Ldr" -> ExecLdr(m, raw_instr)
              [] raw_op = "Ldi" -> ExecLdi(m, raw_instr)
              [] raw_op = "Lea" -> ExecLea(m, raw_instr)
              [] raw_op = "St" -> ExecSt(m, raw_instr)
              [] raw_op = "Sti" -> ExecSti(m, raw_instr)
              [] raw_op = "Str" -> ExecStr(m, raw_instr)
              [] raw_op = "Trap" -> ExecTrap(m, raw_instr)
              [] raw_op = "Rti" -> m
              [] raw_op = "Noop" -> m

(***************************************************************************)
(* vm.rs: Machine::load_image.  A file is the byte stream behind the path: *)
(* whether it can be opened, its bytes, and the index of the read_u16 call *)
(* (0 is the read of the origin) that fails with an error other than end   *)
(* of file, NoFault when none does.                                        *)
(***************************************************************************)
NoFault == 0 - 1

read_u16_little_endian(bytes, pos) == bytes[pos + 1] + bytes[pos + 2] * 256

\* read_u16::<BigEndian> of the two bytes that follow position pos
read_u16_big_endian(bytes, pos) == bytes[pos + 1] * 256 + bytes[pos + 2]

RECURSIVE LoadLoop(_, _, _, _, _)
LoadLoop(m, f, pos, addr, k) ==
    IF f.fault = k THEN [m |-> m, err |-> TRUE]
    ELSE IF Len(f.bytes) - pos < 2 THEN [m |-> m, err |-> FALSE]
    ELSE LoadLoop(mem_write(m, addr, read_u16_big_endian(f.bytes, pos)),
                  f, pos + 2, wrapping_add(addr, 1), k + 1)

load_image_accepts_short_header(m, f) ==
    IF ~f.exists \/ f.fault = 0
    THEN [m |-> m, err |-> TRUE]
    ELSE IF Len(f.bytes) < 2 THEN [m |-> m, err |-> FALSE]
    ELSE LoadLoop(m, f, 2, read_u16_big_endian(f.bytes, 0), 1)

load_image_sets_pc(m, f) ==
    IF ~f.exists \/ f.fault = 0 \/ Len(f.bytes) < 2
    THEN [m |-> m, err |-> TRUE]
    ELSE LoadLoop(reg_set(m, "PC", read_u16_big_endian(f.bytes, 0)),
                  f, 2, read_u16_big_endian(f.bytes, 0), 1)

load_image(m, f) ==
    IF ~f.exists \/ f.fault = 0 \/ Len(f.bytes) < 2
    THEN [m |-> m, err |-> TRUE]
    ELSE LoadLoop(m, f, 2, read_u16_big_endian(f.bytes, 0), 1)

(***************************************************************************)
(* Inputs: instruction words, images and files, standard input.            *)
(***************************************************************************)
\* the opcode value that RawOpCode gives the named operation
OpValue(name) == CHOOSE n \in 0 .. 15 : RawOpCode_from_u16(n) = name

\* an instruction word from its opcode and its fields
I3(name, a, b, c) == OpValue(name) * 4096 + a * 512 + b * 64 + c

I2(name, a, field) == OpValue(name) * 4096 + a * 512 + field

ImmMode == 32

JsrMode == 2048

HaltWord == I2("Trap", 0, 37)

UnknownTrapWord == I2("Trap", 0, 255)

UndefinedOpcodeWord == 15 * 4096

ProgramWords ==
    { I3("Add", 0, 0, ImmMode + 1),      \* ADD R0, R0, #1
      I3("Add", 1, 1, ImmMode + 31),     \* ADD R1, R1, #-1
      I3("And", 2, 0, 1),                \* AND R2, R0, R1
      I3("Not", 0, 0, 0),                \* NOT R0, R0
      I2("Ld", 3, 511),                  \* LD R3, #-1
      I2("Ldi", 4, 0),                   \* LDI R4, #0
      I3("Ldr", 5, 0, 0),                \* LDR R5, R0, #0
      I2("Lea", 6, 1),                   \* LEA R6, #1
      I2("Jsr", 0, JsrMode + 1),         \* JSR #1
      I3("Jsr", 0, 0, 0),                \* JSRR R0
      I3("Jsr", 0, 7, 0),                \* JSRR R7
      I3("Jmp", 0, 0, 0),                \* JMP R0
      I2("Br", 7, 1),                    \* BRnzp #1
      I2("St", 0, 0),                    \* ST R0, #0
      I2("Trap", 0, 32),                 \* GETC
      I2("Trap", 0, 35),                 \* IN
      HaltWord,
      UnknownTrapWord,
      UndefinedOpcodeWord }

Origins == {PC_START, U16 - 1}

WordSeqs == UNION {[1 .. n -> ProgramWords] : n \in 0 .. MaxImageLen}

RECURSIVE EncodeWords(_)
EncodeWords(ws) ==
    IF ws = <<>> THEN <<>>
    ELSE <<Head(ws) \div 256, Head(ws) % 256>> \o EncodeWords(Tail(ws))

\* the bytes of an image: the origin, then the words, all big-endian
EncodeImage(origin, ws) == EncodeWords(<<origin>> \o ws)

\* a program that stores to the keyboard-status address and jumps to it:
\* LD R1, #2; STR R1, R1, #0; JMP R1; .FILL KBSR
KeyboardProbe == <<I2("Ld", 1, 2), I3("Str", 1, 1, 0), I3("Jmp", 0, 1, 0), KBSR>>

\* a path that cannot be opened
NoFile == [exists |-> FALSE, bytes |-> <<>>, fault |-> NoFault]

\* a program that prints a packed string and then the same words unpacked:
\* LEA R0, #2; PUTSP; PUTS; .FILL 0x4241; .FILL 0x0043
StringProbe ==
    <<I2("Lea", 0, 2), I2("Trap", 0, 36), I2("Trap", 0, 34), 66 * 256 + 65, 67>>

\* a program that prints the string at the keyboard-status address:
\* LD R0, #1; PUTS; .FILL KBSR
KeyboardStringProbe == <<I2("Ld", 0, 1), I2("Trap", 0, 34), KBSR>>

FileOf(bytes, fault) == [exists |-> TRUE, bytes |-> bytes, fault |-> fault]

Files ==
    { FileOf(EncodeImage(o, ws) \o t, NoFault) :
          o \in Origins, ws \in WordSeqs, t \in {<<>>, <<255>>} }
    \cup { FileOf(EncodeImage(PC_START, p), NoFault) :
               p \in {KeyboardProbe, StringProbe, KeyboardStringProbe} }
    \cup { FileOf(bytes, NoFault) : bytes \in {<<>>, <<48>>} }
    \cup { FileOf(EncodeImage(PC_START, <<HaltWord>>), k) : k \in 0 .. 2 }
    \cup { NoFile }

StdinBytes == {0, 65}

StdinSeqs == UNION {[1 .. n -> StdinBytes] : n \in 0 .. MaxStdin}

(***************************************************************************)
(* State.                                                                  *)
(***************************************************************************)
NoLast ==
    [valid |-> FALSE, word |-> 0, at |-> 0, reg |-> RegisterManager_default,
     mem |-> MemoryManager_default, stdin |-> <<>>, aborted |-> "no"]

NoSE == [x |-> 0, bit_count |-> 0, out |-> 0, done |-> FALSE]

NoCall ==
    [op |-> "none", a |-> 0, b |-> 0, val |-> 0, out |-> 0,
     reg |-> RegisterManager_default, mem |-> MemoryManager_default,
     stdin |-> <<>>]

\* Machine::default() in main, before load_image; args.file names a file
Init ==
    /\ file \in Files
    /\ call = NoCall
    /\ reg = RegisterManager_default
    /\ mem = MemoryManager_default
    /\ is_running = FALSE
    /\ status = "constructed"
    /\ overflow_checks \in BOOLEAN
    /\ fuel = MaxSteps
    /\ last = NoLast
    /\ output = <<>>
    /\ se = NoSE

\* main: machine.load_image(args.file)?
LoadImage ==
    /\ status = "constructed"
    /\ LET r == load_image(MachineOf(reg, mem, is_running, overflow_checks, <<>>), file)
       IN /\ reg' = r.m.reg
          /\ mem' = r.m.mem
          /\ is_running' = r.m.is_running
          /\ status' = IF r.err THEN "load_error" ELSE "loaded"
    /\ UNCHANGED <<overflow_checks, fuel, last, output, se, file, call>>

\* Machine::run up to its loop
Run ==
    /\ status = "loaded"
    /\ is_running' = TRUE
    /\ status' = "running"
    /\ UNCHANGED <<reg, mem, overflow_checks, fuel, last, output, se, file, call>>

\* the condition of the while loop of Machine::run
LoopGuard_ignores_halt(run, r) == r["PC"] < MAX_MEMORY

LoopGuard(run, r) == run /\ r["PC"] < MAX_MEMORY

\* one iteration of the loop: fetch, then decode_and_execute.  inp is the
\* sequence of bytes the iteration reads from standard input; a read beyond
\* it meets the end of the input.
Step ==
    /\ status = "running"
    /\ LoopGuard(is_running, reg)
    /\ fuel > 0
    /\ \E inp \in StdinSeqs :
          LET m0 == MachineOf(reg, mem, is_running, overflow_checks, inp)
              m1 == fetch(m0)
              m2 == decode_and_execute(m1, m1.val)
          IN /\ m2.stdin = <<>>
             /\ last' = [valid |-> TRUE, word |-> m1.val, at |-> reg["PC"],
                         reg |-> reg, mem |-> mem, stdin |-> inp,
                         aborted |-> m2.why]
             /\ IF m2.ok
                THEN /\ reg' = m2.reg
                     /\ mem' = m2.mem
                     /\ is_running' = m2.is_running
                     /\ output' = m2.out
                     /\ status' = "running"
                ELSE /\ status' = "panicked"
                     /\ UNCHANGED <<reg, mem, is_running, output>>
    /\ fuel' = fuel - 1
    /\ UNCHANGED <<overflow_checks, se, file, call>>

\* the loop condition is false: Machine::run returns to main
Return ==
    /\ status = "running"
    /\ ~LoopGuard(is_running, reg)
    /\ status' = "returned"
    /\ UNCHANGED <<reg, mem, is_running, overflow_checks, fuel, last, output, se, file, call>>

Next == LoadImage \/ Run \/ Step \/ Return

Spec == Init /\ [][Next]_vars

(***************************************************************************)
(* The loop entered from any machine state, as the unit tests of vm.rs     *)
(* enter decode_and_execute: registers, flags, PC and memory are drawn     *)
(* from bounded sets and one iteration is run on the word at PC.           *)
(***************************************************************************)
Off9 == {0, 1, 511, 256}

Off6 == {0, 1, 63}

Off11 == {0, 1, 2047, 1024}

Imm5 == {0, 1, 31, 16}

ExecWords ==
    { I2("Br", nzp, off) : nzp \in 0 .. 7, off \in Off9 }
    \cup { I3(op, d, s, ImmMode + i) : op \in {"Add", "And"}, d \in {0, 7}, s \in {0, 3}, i \in Imm5 }
    \cup { I3(op, d, s, t) : op \in {"Add", "And"}, d \in {0, 7}, s \in {0, 3}, t \in {0, 6} }
    \cup { I3("Not", d, s, 63) : d \in {0, 7}, s \in {0, 3, 4} }
    \cup { I3("Jmp", 0, b, 0) : b \in 0 .. 7 }
    \cup { I2("Jsr", 0, JsrMode + off) : off \in Off11 }
    \cup { I3("Jsr", 0, b, 0) : b \in 0 .. 7 }
    \cup { I2(op, d, off) : op \in {"Ld", "Ldi", "Lea", "St", "Sti"}, d \in {0, 7}, off \in Off9 }
    \cup { I3(op, d, b, off) : op \in {"Ldr", "Str"}, d \in {0, 1}, b \in {1, 2, 3, 5}, off \in Off6 }
    \cup { I2("Trap", 0, v) : v \in {0, 31, 32, 33, 34, 35, 36, 37, 38, 255} }
    \cup { I2("Noop", 0, 0), UndefinedOpcodeWord }

ExecPCs == {PC_START, U16 - 1, KBSR - 1}

ExecDataAddrs == {PC_START + 2, 32773}

ExecDataWords == {0, 32773}

ExecMemories ==
    { [a \in {x \in ExecDataAddrs : f[x] # 0} |-> f[a]] :
          f \in [ExecDataAddrs -> ExecDataWords] }
    \cup { [a \in {PC_START + 2} |-> KBSR] }

ExecGeneralRegisters ==
    { [R0 |-> PC_START + 2, R1 |-> PC_START + 2, R2 |-> 32773, R3 |-> U16 - 1,
       R4 |-> 32768, R5 |-> KBSR, R6 |-> 1, R7 |-> 16384] }

ExecFlags == {0, CondFlag_Pos, CondFlag_Zero, CondFlag_Neg}

InitExec ==
    /\ \E g \in ExecGeneralRegisters, pc \in ExecPCs, c \in ExecFlags :
          reg = [r \in Registers |->
                    IF r \in GeneralRegisters THEN g[r]
                    ELSE IF r = "PC" THEN pc
                    ELSE IF r = "COND" THEN c ELSE 0]
    /\ \E d \in ExecMemories, w \in ExecWords :
          mem = MemStore(d, reg["PC"], w)
    /\ is_running = TRUE
    /\ status = "running"
    /\ overflow_checks \in BOOLEAN
    /\ fuel = 1
    /\ last = NoLast
    /\ output = <<>>
    /\ se = NoSE
    /\ file = NoFile
    /\ call = NoCall

NextExec == Step \/ Return

SpecExec == InitExec /\ [][NextExec]_vars

(***************************************************************************)
(* load_image on its own: the machine it is called on holds words already, *)
(* inside and outside the addresses the image covers.                      *)
(***************************************************************************)
\* the word 0xAAAA that the memory holds before the load
LoadFill == 170 * 256 + 170

LoadMemories ==
    { MemoryManager_default,
      [a \in {0, 256, PC_START, PC_START + 1, U16 - 1} |-> LoadFill] }

InitLoad ==
    /\ file \in Files
    /\ call = NoCall
    /\ mem \in LoadMemories
    /\ reg = RegisterManager_default
    /\ is_running = FALSE
    /\ status = "constructed"
    /\ overflow_checks \in BOOLEAN
    /\ fuel = 0
    /\ last = NoLast
    /\ output = <<>>
    /\ se = NoSE

NextLoad == LoadImage

SpecLoad == InitLoad /\ [][NextLoad]_vars

(***************************************************************************)
(* RegisterManager and MemoryManager on their own, as the unit tests of    *)
(* memory.rs call them: a bounded number of calls on a register file and   *)
(* a memory drawn from small sets.                                         *)
(***************************************************************************)
MaxCalls == 2

ApiRegisters == {"R0", "PC", "COUNT"}

ApiValues == {1, U16 - 1}

ApiAddrs == {0, U16 - 1, KBSR, KBDR}

ApiWords == {0, 105 + 256}

ApiRegisterFiles ==
    { RegisterManager_default,
      [r \in Registers |-> CASE r = "R0" -> U16 - 1
                              [] r = "PC" -> U16 - 2
                              [] r = "COUNT" -> 7
                              [] OTHER -> 32768] }

ApiMemories ==
    { MemoryManager_default,
      [a \in {0, U16 - 1, KBSR} |-> 127] }

InitApi ==
    /\ reg \in ApiRegisterFiles
    /\ mem \in ApiMemories
    /\ is_running = FALSE
    /\ status = "constructed"
    /\ overflow_checks \in BOOLEAN
    /\ fuel = MaxCalls
    /\ last = NoLast
    /\ output = <<>>
    /\ se = NoSE
    /\ file = NoFile
    /\ call = NoCall

\* the state after a call that returned: m is the machine, out the result
Returned(op, a, b, val, m, out) ==
    /\ call' = [op |-> op, a |-> a, b |-> b, val |-> val, out |-> out,
                reg |-> reg, mem |-> mem, stdin |-> m.consumed]
    /\ reg' = m.reg
    /\ mem' = m.mem
    /\ fuel' = fuel - 1
    /\ UNCHANGED <<is_running, status, overflow_checks, last, output, se, file>>

\* the machine a call runs on; consumed is the input the call is to read
ApiMachine(inp) ==
    [m \in {"consumed"} |-> inp] @@ MachineOf(reg, mem, is_running, overflow_checks, inp)

CallRegGet ==
    /\ status = "constructed" /\ fuel > 0
    /\ \E r \in ApiRegisters :
          Returned("get", r, r, 0, ApiMachine(<<>>), reg_get(ApiMachine(<<>>), r))

CallRegSet ==
    /\ status = "constructed" /\ fuel > 0
    /\ \E r \in ApiRegisters, v \in ApiValues :
          Returned("set", r, r, v, reg_set(ApiMachine(<<>>), r, v), 0)

CallRegIncr ==
    /\ status = "constructed" /\ fuel > 0
    /\ \E r \in ApiRegisters :
          Returned("incr", r, r, 1, reg_incr(ApiMachine(<<>>), r), 0)

CallRegIncrBy ==
    /\ status = "constructed" /\ fuel > 0
    /\ \E r \in ApiRegisters, v \in ApiValues :
          Returned("incr_by", r, r, v, reg_incr_by(ApiMachine(<<>>), r, v), 0)

CallRegCopy ==
    /\ status = "constructed" /\ fuel > 0
    /\ \E sink \in ApiRegisters, src \in ApiRegisters :
          Returned("copy", sink, src, 0, reg_copy(ApiMachine(<<>>), sink, src), 0)

CallMemWrite ==
    /\ status = "constructed" /\ fuel > 0
    /\ \E addr \in ApiAddrs, v \in ApiWords :
          Returned("write", addr, addr, v, mem_write(ApiMachine(<<>>), addr, v), 0)

\* a read that meets the end of standard input panics
CallMemRead ==
    /\ status = "constructed" /\ fuel > 0
    /\ \E addr \in ApiAddrs, inp \in StdinSeqs :
          LET m == mem_read(ApiMachine(inp), addr)
          IN /\ m.stdin = <<>>
             /\ IF m.ok
                THEN Returned("read", addr, addr, 0, m, m.val)
                ELSE /\ status' = "panicked"
                     /\ call' = [NoCall EXCEPT !.op = "read", !.a = addr,
                                               !.reg = reg, !.mem = mem,
                                               !.stdin = inp]
                     /\ fuel' = fuel - 1
                     /\ UNCHANGED <<reg, mem, is_running, overflow_checks, last,
                                    output, se, file>>

NextApi ==
    \/ CallRegGet \/ CallRegSet \/ CallRegIncr \/ CallRegIncrBy \/ CallRegCopy
    \/ CallMemWrite \/ CallMemRead

SpecApi == InitApi /\ [][NextApi]_vars

(***************************************************************************)
(* sign_extend on its own: the arguments are drawn from bounded sets and   *)
(* the function is applied once.                                           *)
(***************************************************************************)
SignExtendBytes == {0, 1, 13, 127, 128, 255}

SignExtendInputs == {hi * 256 + lo : hi \in SignExtendBytes, lo \in SignExtendBytes}

InitSignExtend ==
    /\ reg = RegisterManager_default
    /\ mem = MemoryManager_default
    /\ is_running = FALSE
    /\ status = "constructed"
    /\ overflow_checks \in BOOLEAN
    /\ fuel = 0
    /\ last = NoLast
    /\ output = <<>>
    /\ \E x \in SignExtendInputs, bit_count \in 0 .. U16_BITS :
          se = [x |-> x, bit_count |-> bit_count, out |-> 0, done |-> FALSE]
    /\ file = NoFile
    /\ call = NoCall

CallSignExtend ==
    /\ ~se.done
    /\ se' = [se EXCEPT !.out = sign_extend(se.x, se.bit_count, overflow_checks),
                        !.done = TRUE]
    /\ UNCHANGED <<reg, mem, is_running, status, overflow_checks, fuel, last, output, file, call>>

NextSignExtend == CallSignExtend

SpecSignExtend == InitSignExtend /\ [][NextSignExtend]_vars

(***************************************************************************)
(* Properties.  `last` holds the word the latest iteration fetched, the    *)
(* address it was fetched from and the registers and memory before the     *)
(* fetch; the variables hold the state after the iteration.  The fields    *)
(* of the word and the expected values are computed arithmetically here,   *)
(* not with the operators of the model.                                    *)
(***************************************************************************)
\* the latest iteration ran to its end (no panic)
Executed == last.valid /\ last.aborted = "no"

LastOpcode == last.word \div 4096

LastOp == IF LastOpcode < 15 THEN RawOpCodeOrder[LastOpcode + 1] ELSE "None"

LastVector == last.word % 256

\* PC as fetch leaves it: the address of the word plus one, modulo 2^16
PcAfterFetch == (last.at + 1) % 65536

\* the two's-complement value of a field of `bits` bits
Signed(field, bits) == IF field >= 2 ^ (bits - 1) THEN field - 2 ^ bits ELSE field

\* address arithmetic modulo 2^16
AddrPlus(base, delta) == (base + delta + 65536) % 65536

LastDest == RegisterOrder[((last.word \div 512) % 8) + 1]

LastBase == RegisterOrder[((last.word \div 64) % 8) + 1]

Classified(v) == IF v = 0 THEN 2 ELSE IF v >= 32768 THEN 4 ELSE 1

GeneralUnchanged == \A r \in GeneralRegisters : reg[r] = last.reg[r]

GeneralUnchangedExcept(d) == \A r \in GeneralRegisters \ {d} : reg[r] = last.reg[r]

FlagWritingOps == {"Add", "And", "Not", "Ld", "Ldi", "Ldr", "Lea"}

C2_RunEndsWhenPCLeavesRange ==
    (Executed /\ last.at = 65535 /\ last.word = 0 /\ status = "running")
    => ~(is_running /\ reg["PC"] < 65536)

LastWasHalt == Executed /\ LastOp = "Trap" /\ LastVector = 37

\* C3: when HALT is executed the running flag is false, PC is the address
\* of the HALT word plus one, and from then on there is no further fetch:
\* every later step leaves registers, memory and the flag as they are.
C3_HaltStopsTheLoop ==
    /\ [](LastWasHalt => (~is_running /\ reg["PC"] = PcAfterFetch))
    /\ [][LastWasHalt => (reg' = reg /\ mem' = mem /\ is_running' = is_running
                            /\ last' = last /\ status' = "returned")]_vars

C3_Witness == LastWasHalt /\ status = "returned" /\ reg["R0"] # 0

\* C4: for bit_count in 1..16 sign_extend keeps the low bit_count bits of x
\* and fills every bit above with bit bit_count-1 of x; sign_extend(x, 0) = x.
C4_SignExtendAllWidths ==
    se.done =>
        /\ se.bit_count = 0 => se.out = se.x
        /\ se.bit_count \in 1 .. 16 =>
              /\ se.out \in 0 .. 65535
              /\ \A k \in 0 .. 15 :
                    (se.out \div 2 ^ k) % 2
                       = IF k < se.bit_count
                         THEN (se.x \div 2 ^ k) % 2
                         ELSE (se.x \div 2 ^ (se.bit_count - 1)) % 2

\* C5: decode_and_execute completes normally for every instruction word
\* that needs no console input: no word makes decoding abort the process.
C5_DecodeNeverAborts ==
    (last.valid /\ last.aborted # "stdin") => last.aborted = "no"

LastWasUnknownTrap ==
    Executed /\ LastOp = "Trap" /\ LastVector \notin 32 .. 37

\* C6: a TRAP whose vector is none of 0x20..0x25 leaves the engine running
\* (the loop goes on to the next fetch) and changes no general-purpose
\* register, not COND, not PC beyond the fetch increment, and no memory word.
C6_UnknownTrapIsNonFatal ==
    LastWasUnknownTrap =>
        /\ is_running
        /\ status = "running"
        /\ reg["PC"] < 65536
        /\ GeneralUnchanged
        /\ reg["COND"] = last.reg["COND"]
        /\ reg["PC"] = PcAfterFetch
        /\ mem = last.mem

C6_Witness == LastWasUnknownTrap /\ LastVector = 38 /\ last.reg["COND"] = 4

LastNzp == (last.word \div 512) % 8

LastBranches == \E k \in 0 .. 2 : (LastNzp \div 2 ^ k) % 2 = 1 /\ last.reg["COND"] = 2 ^ k

\* C8: BR moves PC by the sign-extended offset9 (modulo 65536) exactly when
\* a tested bit of nzp is set in COND, leaves PC alone otherwise, and never
\* changes R0..R7, COND or memory.
C8_BranchOnlyOnMatchingFlag ==
    (Executed /\ LastOpcode = 0 /\ last.at # KBSR) =>
        /\ reg["PC"] = IF LastBranches
                       THEN AddrPlus(PcAfterFetch, Signed(last.word % 512, 9))
                       ELSE PcAfterFetch
        /\ GeneralUnchanged
        /\ reg["COND"] = last.reg["COND"]
        /\ mem = last.mem

C8_Witness ==
    /\ Executed
    /\ LastOpcode = 0
    /\ LastNzp = 5
    /\ last.reg["COND"] = 4
    /\ last.word % 512 = 511
    /\ reg["PC"] = last.at

\* C9: JSR/JSRR leave the return address (PC after the fetch) in R7; JSR
\* adds the sign-extended offset11 to PC, JSRR sets PC to the value its
\* base register held when the instruction started, for every base R0..R7.
C9_JsrLinksAndJumps ==
    (Executed /\ LastOp = "Jsr") =>
        /\ reg["R7"] = PcAfterFetch
        /\ reg["PC"] = IF (last.word \div 2048) % 2 = 1
                       THEN AddrPlus(PcAfterFetch, Signed(last.word % 2048, 11))
                       ELSE last.reg[LastBase]

LdiPointerAddr == AddrPlus(PcAfterFetch, Signed(last.word % 512, 9))

LdiPointer == MemWord(last.mem, LdiPointerAddr)

\* C10: LDI reads a = memory[PC + sext(offset9)] and then dest = memory[a];
\* COND classifies the loaded value memory[a], not the address a.
C10_LdiLoadsThroughPointer ==
    (Executed /\ LastOp = "Ldi") =>
        /\ reg["COND"] = Classified(reg[LastDest])
        /\ (LdiPointerAddr # KBSR /\ LdiPointer # KBSR) =>
              /\ reg[LastDest] = MemWord(last.mem, LdiPointer)
              /\ mem = last.mem
        /\ GeneralUnchangedExcept(LastDest)
        /\ reg["PC"] = PcAfterFetch

C10_Witness ==
    /\ Executed
    /\ LastOp = "Ldi"
    /\ LdiPointer = 32773
    /\ reg[LastDest] = 0
    /\ reg["COND"] = 2
    /\ last.reg["COND"] = 4

(***************************************************************************)
(* The loader.  The origin and the words are taken from the bytes of the   *)
(* file arithmetically, most significant byte first.                       *)
(***************************************************************************)
FileOrigin == file.bytes[1] * 256 + file.bytes[2]

\* the number of whole words that follow the origin
FileWordCount == (Len(file.bytes) - 2) \div 2

FileWordAt(i) == file.bytes[2 * i + 3] * 256 + file.bytes[2 * i + 4]

FileAddrs == {(FileOrigin + i) % 65536 : i \in 0 .. (FileWordCount - 1)}

\* C11: loading an image of origin O and N words makes memory[(O + i) mod
\* 65536] the i-th word for every i < N, also where O + i wraps past 0xFFFF,
\* and leaves every other memory word as it was.
C11_LoadedImageRoundTrip ==
    [][(status = "constructed" /\ status' = "loaded") =>
          /\ \A i \in 0 .. (FileWordCount - 1) :
                MemWord(mem', (FileOrigin + i) % 65536) = FileWordAt(i)
          /\ \A a \in (DOMAIN mem \cup DOMAIN mem') \ FileAddrs :
                MemWord(mem', a) = MemWord(mem, a)]_vars

C11_Witness ==
    /\ status = "loaded"
    /\ FileOrigin = 65535
    /\ FileWordCount = 2
    /\ MemWord(mem, 65535) = FileWordAt(0)
    /\ MemWord(mem, 0) = FileWordAt(1)
    /\ FileWordAt(1) \notin {0, LoadFill}
    /\ MemWord(mem, 256) = LoadFill

\* the read_u16 call of index file.fault (0 reads the origin) is reached
FaultReached == file.fault # NoFault /\ 2 * file.fault <= Len(file.bytes)

\* C12: a stream shorter than the 2-byte origin makes load_image fail with
\* memory and registers unchanged and no execution begun; a stream that ends
\* after the origin or after a whole word makes it succeed; a read failure
\* other than end of stream makes it fail, and nothing is executed.
C12_LoaderErrorOutcomes ==
    (status # "constructed" /\ file.exists) =>
        /\ (file.fault = NoFault /\ Len(file.bytes) < 2) =>
              /\ status = "load_error"
              /\ mem = MemoryManager_default
              /\ reg = RegisterManager_default
              /\ ~is_running /\ ~last.valid
        /\ (file.fault = NoFault /\ Len(file.bytes) >= 2 /\ Len(file.bytes) % 2 = 0) =>
              status # "load_error"
        /\ FaultReached =>
              (status = "load_error" /\ ~is_running /\ ~last.valid)

C12_Witness ==
    /\ status = "load_error"
    /\ file.exists
    /\ file.fault = NoFault
    /\ Len(file.bytes) = 1

(***************************************************************************)
(* ADD.                                                                    *)
(***************************************************************************)
LastSrc2 == RegisterOrder[(last.word % 8) + 1]

LastImmediateMode == (last.word \div 32) % 2 = 1

\* the second operand of ADD and AND, as a signed or unsigned number
LastOperand2 ==
    IF LastImmediateMode THEN Signed(last.word % 32, 5) ELSE last.reg[LastSrc2]

\* C13: ADD sets dest to (src1 + src2) mod 65536 in register mode and to
\* (src1 + sext(imm5)) mod 65536 in immediate mode, from the values the
\* sources held before the instruction (dest may be a source); an overflow
\* wraps and is no error; COND classifies the sum.
C13_AddWrapsModulo65536 ==
    /\ (last.valid /\ LastOp = "Add") => last.aborted = "no"
    /\ (Executed /\ LastOp = "Add") =>
          /\ reg[LastDest] = (last.reg[LastBase] + LastOperand2 + 65536) % 65536
          /\ reg["COND"] = Classified(reg[LastDest])
          /\ GeneralUnchangedExcept(LastDest)

C13_Witness ==
    /\ Executed
    /\ LastOp = "Add"
    /\ ~LastImmediateMode
    /\ LastDest = LastSrc2
    /\ last.reg[LastBase] + last.reg[LastSrc2] > 65536
    /\ reg[LastDest] = last.reg[LastBase] + last.reg[LastSrc2] - 65536
    /\ reg["COND"] = 1

(***************************************************************************)
(* PUTS and PUTSP.                                                         *)
(***************************************************************************)
\* the addresses of the string that starts at addr, terminator included;
\* n bounds the length by the size of memory
RECURSIVE StringAddrs(_, _, _)
StringAddrs(memory, addr, n) ==
    IF n = 0 \/ MemWord(memory, addr) = 0 THEN {addr}
    ELSE {addr} \cup StringAddrs(memory, (addr + 1) % 65536, n - 1)

\* what PUTS (packed = FALSE) and PUTSP (packed = TRUE) are to print
RECURSIVE StringChars(_, _, _, _)
StringChars(memory, addr, packed, n) ==
    LET w == MemWord(memory, addr)
    IN IF n = 0 \/ w = 0 THEN <<>>
       ELSE (IF packed /\ w \div 256 # 0 THEN <<w % 256, w \div 256>> ELSE <<w % 256>>)
            \o StringChars(memory, (addr + 1) % 65536, packed, n - 1)

LastWasPrintString == Executed /\ LastOp = "Trap" /\ LastVector \in {34, 36}

LastStringIsPrinted ==
    /\ output = StringChars(last.mem, last.reg["R0"], LastVector = 36, 65536)
    /\ GeneralUnchanged
    /\ reg["COND"] = last.reg["COND"]
    /\ reg["PC"] = PcAfterFetch
    /\ mem = last.mem

\* C14 as stated: from the address in R0 up to the first zero word, PUTS
\* prints the low byte of each word and PUTSP the low byte and then the high
\* byte unless it is zero; all registers and all memory are left unchanged.
C14_PutsAndPutspPrintAndChangeNothing ==
    LastWasPrintString => LastStringIsPrinted

\* C14 amended: the same, for a string none of whose words, the terminator
\* included, lies at the keyboard-status address.
C14_PutsAndPutspOffTheKeyboardStatusWord ==
    (LastWasPrintString
       /\ KBSR \notin StringAddrs(last.mem, last.reg["R0"], 65536))
    => LastStringIsPrinted

C14_Witness ==
    /\ LastWasPrintString
    /\ LastVector = 36
    /\ output = <<65, 66, 67>>
    /\ mem = last.mem

(***************************************************************************)
(* The register file and the memory.                                       *)
(***************************************************************************)
CallReturned == call.op # "none" /\ status = "constructed"

OtherRegistersUnchanged(r) == \A q \in Registers \ {r} : reg[q] = call.reg[q]

\* C15: set(r, v) leaves v in r (so that get returns it), get returns the
\* content of r, copy(d, s) leaves the value of s in d, incr and incr_by add
\* modulo 65536 and always return; each changes only its target register.
C15_RegisterOperations ==
    CallReturned =>
        /\ call.op = "get" => (call.out = reg[call.a] /\ reg = call.reg)
        /\ call.op = "set" =>
              (reg[call.a] = call.val /\ OtherRegistersUnchanged(call.a))
        /\ call.op = "copy" =>
              (reg[call.a] = call.reg[call.b] /\ OtherRegistersUnchanged(call.a))
        /\ call.op = "incr" =>
              /\ reg[call.a] = (call.reg[call.a] + 1) % 65536
              /\ OtherRegistersUnchanged(call.a)
        /\ call.op = "incr_by" =>
              /\ reg[call.a] = (call.reg[call.a] + call.val) % 65536
              /\ OtherRegistersUnchanged(call.a)
        /\ call.op \in {"get", "set", "copy", "incr", "incr_by"} => mem = call.mem

C15_Witness ==
    /\ CallReturned
    /\ call.op = "incr"
    /\ call.reg[call.a] = 65535
    /\ reg[call.a] = 0
    /\ reg["COUNT"] = 7

\* C16: at every address other than the keyboard-status address read(a)
\* returns the word last written at a (0 when never written) and changes no
\* memory word; write(a, v) leaves v at a and changes no other word.
C16_MemoryIsPlainStorage ==
    CallReturned =>
        /\ (call.op = "read" /\ call.a # KBSR) =>
              /\ call.out = MemWord(call.mem, call.a)
              /\ mem = call.mem
        /\ call.op = "write" =>
              /\ MemWord(mem, call.a) = call.val
              /\ \A a \in (DOMAIN mem \cup DOMAIN call.mem) \ {call.a} :
                    MemWord(mem, a) = MemWord(call.mem, a)
        /\ call.op \in {"read", "write"} => reg = call.reg

C16_Witness ==
    /\ CallReturned
    /\ call.op = "read"
    /\ call.a = 65535
    /\ call.out = 105 + 256
    /\ MemWord(mem, 0) = 127

(***************************************************************************)
(* PC-relative addressing, the flag rule, AND and NOT, the stores.         *)
(***************************************************************************)
\* the address that offset9 of the latest word names, from the address
\* after the word
PcRelativeAddr == AddrPlus(PcAfterFetch, Signed(last.word % 512, 9))

PcRelativePointer == MemWord(last.mem, PcRelativeAddr)

\* C17: BR, JSR, LD, LDI, LEA, ST and STI fetched from address A apply
\* their offset to (A + 1) mod 65536, also for A = 0xFFFF.
C17_PcRelativeFromIncrementedPC ==
    Executed =>
        /\ LastOp = "Lea" => reg[LastDest] = PcRelativeAddr
        /\ (LastOp = "Br" /\ LastBranches) => reg["PC"] = PcRelativeAddr
        /\ (LastOp = "Jsr" /\ (last.word \div 2048) % 2 = 1) =>
              /\ reg["PC"] = AddrPlus(PcAfterFetch, Signed(last.word % 2048, 11))
              /\ reg["R7"] = PcAfterFetch
        /\ (LastOp = "Ld" /\ PcRelativeAddr # KBSR) =>
              reg[LastDest] = PcRelativePointer
        /\ (LastOp = "Ldi" /\ PcRelativeAddr # KBSR /\ PcRelativePointer # KBSR) =>
              reg[LastDest] = MemWord(last.mem, PcRelativePointer)
        /\ LastOp = "St" => MemWord(mem, PcRelativeAddr) = last.reg[LastDest]
        /\ (LastOp = "Sti" /\ PcRelativeAddr # KBSR) =>
              MemWord(mem, PcRelativePointer) = last.reg[LastDest]

C17_Witness ==
    /\ Executed
    /\ LastOp = "Lea"
    /\ last.at = 65535
    /\ last.word % 512 = 1
    /\ reg[LastDest] = 1

\* C18: after each of ADD, AND, NOT, LD, LDI, LDR and LEA, COND is 2 when
\* the new value of dest is 0, 4 when it is 0x8000 or more, 1 otherwise,
\* whatever COND held before.
C18_FlagClassifiesDestination ==
    (Executed /\ last.word # 0 /\ LastOp \in FlagWritingOps)
    => reg["COND"] = Classified(reg[LastDest])

C18_Witness ==
    /\ Executed
    /\ LastOp = "Not"
    /\ reg[LastDest] = 32767
    /\ last.reg["COND"] = 4
    /\ reg["COND"] = 1

BitOf(v, k) == (v \div 2 ^ k) % 2

\* C19: AND sets every bit of dest to the AND of the bits of src1 and of
\* the second operand (src2, or imm5 sign-extended to 16 bits), NOT sets
\* dest to the complement of src; the instruction changes no other general
\* register, not PC and no memory word.
C19_AndNotAreBitwise ==
    (Executed /\ LastOp \in {"And", "Not"}) =>
        /\ LastOp = "And" =>
              \A k \in 0 .. 15 :
                 BitOf(reg[LastDest], k)
                    = BitOf(last.reg[LastBase], k) * BitOf((LastOperand2 + 65536) % 65536, k)
        /\ LastOp = "Not" => reg[LastDest] = 65535 - last.reg[LastBase]
        /\ reg[LastDest] \in 0 .. 65535
        /\ GeneralUnchangedExcept(LastDest)
        /\ reg["PC"] = PcAfterFetch
        /\ last.at # KBSR => mem = last.mem

C19_Witness ==
    /\ Executed
    /\ LastOp = "And"
    /\ LastImmediateMode
    /\ last.word % 32 = 16
    /\ last.reg[LastBase] = 65535
    /\ reg[LastDest] = 65520
    /\ reg["COND"] = 4

\* the address a store writes to, from the state before the instruction
StoreAddr ==
    CASE LastOp = "St" -> PcRelativeAddr
      [] LastOp = "Sti" -> PcRelativePointer
      [] LastOp = "Str" -> AddrPlus(last.reg[LastBase], Signed(last.word % 64, 6))

StoreChangesOneWord ==
    /\ MemWord(mem, StoreAddr) = last.reg[LastDest]
    /\ \A a \in (DOMAIN mem \cup DOMAIN last.mem) \ {StoreAddr} :
          MemWord(mem, a) = MemWord(last.mem, a)
    /\ GeneralUnchanged
    /\ reg["COND"] = last.reg["COND"]
    /\ reg["PC"] = PcAfterFetch

\* C20 as stated: ST, STI and STR write src to their address and change no
\* other memory word, none of R0..R7, not PC and not COND.
C20_StoreChangesOneWord ==
    (Executed /\ LastOp \in {"St", "Sti", "Str"}) => StoreChangesOneWord

\* C20 amended: the same, for ST, for STR, and for an STI whose pointer
\* word is not at the keyboard-status address.
C20_StoreChangesOneWordOffTheKeyboardStatusWord ==
    (Executed /\ LastOp \in {"St", "Sti", "Str"}
       /\ ~(LastOp = "Sti" /\ PcRelativeAddr = KBSR))
    => StoreChangesOneWord

C20_Witness ==
    /\ Executed
    /\ LastOp = "Sti"
    /\ PcRelativePointer = 32773
    /\ MemWord(last.mem, 32773) = 32773
    /\ MemWord(mem, 32773) = last.reg[LastDest]
    /\ MemWord(mem, PcRelativeAddr) = 32773
    /\ last.reg[LastDest] # 32773

(***************************************************************************)
(* LD and LDR; the keyboard-status word.                                   *)
(***************************************************************************)
LdrAddr == AddrPlus(last.reg[LastBase], Signed(last.word % 64, 6))

LoadedFrom(addr) ==
    addr # KBSR =>
        /\ reg[LastDest] = MemWord(last.mem, addr)
        /\ mem = last.mem
        /\ GeneralUnchangedExcept(LastDest)
        /\ reg["PC"] = PcAfterFetch

\* C21: LD sets dest to memory[(PC + sext(offset9)) mod 65536] and LDR to
\* memory[(base + sext(offset6)) mod 65536], base being read before dest is
\* written; for an address other than the keyboard-status address memory
\* is unchanged.
C21_LdAndLdrLoadWithWrappingAddress ==
    /\ (Executed /\ LastOp = "Ld") => LoadedFrom(PcRelativeAddr)
    /\ (Executed /\ LastOp = "Ldr") => LoadedFrom(LdrAddr)

C21_Witness ==
    /\ Executed
    /\ LastOp = "Ldr"
    /\ LastDest = LastBase
    /\ last.word % 64 = 0
    /\ reg[LastDest] = 32773
    /\ last.reg[LastBase] = 12290

LastWasStatusRead == CallReturned /\ call.op = "read" /\ call.a = KBSR

\* C22: a read of the keyboard-status address consumes exactly one input
\* byte b, for every b; afterwards the keyboard-data word holds b and the
\* keyboard-status word, which the read returns, has its high bit set; no
\* other memory word changes.
C22_StatusReadLatchesEveryByte ==
    LastWasStatusRead =>
        /\ Len(call.stdin) = 1
        /\ MemWord(mem, KBDR) = call.stdin[1]
        /\ MemWord(mem, KBSR) >= 32768
        /\ call.out = MemWord(mem, KBSR)
        /\ \A a \in (DOMAIN mem \cup DOMAIN call.mem) \ {KBSR, KBDR} :
              MemWord(mem, a) = MemWord(call.mem, a)

(***************************************************************************)
(* Construction, loading and the run loop.                                 *)
(***************************************************************************)
\* C23: a newly constructed machine has R0..R7 and COND at 0, PC at 0x3000,
\* every memory word at 0 and is not running; the running flag is set only
\* by the entry of run() and cleared only by the execution of a HALT trap.
C23_InitialStateAndRunningFlag ==
    /\ [](status = "constructed" =>
            /\ \A r \in GeneralRegisters \cup {"COND"} : reg[r] = 0
            /\ reg["PC"] = 12288
            /\ \A a \in DOMAIN mem : mem[a] = 0
            /\ ~is_running)
    /\ [][(~is_running /\ is_running') =>
            (status = "loaded" /\ status' = "running"
               /\ reg' = reg /\ mem' = mem /\ last' = last)]_vars
    /\ [][(is_running /\ ~is_running') =>
            (last' # last /\ last'.valid /\ last'.aborted = "no"
               /\ last'.word \div 4096 = 14 /\ last'.word % 256 = 37)]_vars

C23_Witness ==
    /\ LastWasHalt
    /\ ~is_running
    /\ status = "running"
    /\ last.at = 12288
    /\ fuel = MaxSteps - 1

\* C24: load_image changes memory only: every register is left as it was,
\* PC is not set to the origin of the image, and the first fetch of run()
\* after a load is at 0x3000 whatever the origin.
C24_LoadLeavesRegistersAlone ==
    /\ [][status = "constructed" => (reg' = reg /\ is_running' = is_running)]_vars
    /\ [][(status = "running" /\ ~last.valid /\ last'.valid) =>
            (last'.at = 12288 /\ last'.reg["PC"] = 12288)]_vars

C24_Witness ==
    /\ last.valid
    /\ fuel = MaxSteps - 1
    /\ file.exists
    /\ Len(file.bytes) >= 4
    /\ FileOrigin = 65535
    /\ MemWord(last.mem, 65535) # 0
    /\ last.at = 12288
    /\ last.word = 0

\* C25: in every reachable state PC is within 0..65535 (after a fetch at
\* 0xFFFF it is 0), so that the PC-range condition of the run loop is always
\* true, and run() has returned only if a HALT trap was executed.
C25_PcStaysInRange ==
    /\ reg["PC"] \in 0 .. 65535
    /\ (Executed /\ last.at = 65535 /\ last.word = 0) => reg["PC"] = 0
    /\ status = "returned" => (LastWasHalt /\ ~is_running)

C25_Witness ==
    /\ Executed
    /\ last.at = 65535
    /\ reg["PC"] = 0
    /\ is_running
    /\ status = "running"
    /\ fuel < MaxSteps - 1

====
